---- MODULE Spec2Model ----
(***************************************************************************)
(* Model of neural_network_preprocessing/neural_network.py: the function   *)
(* insert_batchnorm_layer and the class ProcessedNetwork (importance       *)
(* extraction by fine-tuning inserted BatchNormalization layers).          *)
(*                                                                         *)
(* A network is a sequence of layers; a layer is a record                  *)
(*   [type, units, trainable, w0]                                          *)
(* where w0 is get_weights()[0]: the kernel (a sequence of rows, one per   *)
(* input unit) of a Dense layer, the scale vector gamma of a               *)
(* BatchNormalization layer, and <<>> for an InputLayer.  Floating point   *)
(* values are integers in memory; the result of a numpy division a / b is  *)
(* the fraction [num |-> a, den |-> b] (den = 0 is numpy's nan / inf), and *)
(* the archive holds every number as a fraction (v is v / 1).              *)
(* Python lists are 1-based sequences: Python index i is position i + 1.   *)
(***************************************************************************)
EXTENDS Integers, Sequences, FiniteSets, TLC

VARIABLES
    model,                  \* the pretrained network stored at self.model_path
    architecture_data,      \* self.architecture_data
    num_classes,            \* self.num_classes
    node_importance_value,  \* self.node_importance_value
    edge_importance_value,  \* self.edge_importance_value
    edge_importance_set,    \* self.edge_importance_set
    fine_tuned_model,       \* the model last handed to extract_importance_from_model
    fine_tune_calls,        \* number of get_fine_tuned_model_data calls so far
    extract_calls,          \* number of extract_importance_from_model calls so far
    column_data,            \* per extraction call: what the model it was given was fitted on
    calls,                  \* number of public method calls made on the instance
    last,                   \* the last public call: its arguments, outcome and return value
    archive                 \* what np.savez last wrote at the export path

vars == <<model, architecture_data, num_classes, node_importance_value,
          edge_importance_value, edge_importance_set, fine_tuned_model,
          fine_tune_calls, extract_calls, column_data, calls, last, archive>>

----------------------------------------------------------------------------
(* Bounds of the model *)

MaxUnits == 3       \* units of a small network, all its layers together
MaxCalls == 2       \* public method calls made on one instance

(* CPython keeps one object per integer in -5..256; `is` on two integers   *)
(* compares objects, so it agrees with == only inside that range.          *)
SmallIntMin == -5
SmallIntMax == 256

(* None, where the code holds it in place of an array (an array of the     *)
(* model is never empty)                                                   *)
None == <<>>

(* num_classes holds an integer from construction on, never None *)
IsNone(v) == v \notin Int

----------------------------------------------------------------------------
(* Sequence helpers *)

Abs(x) == IF x < 0 THEN -x ELSE x

Min2(a, b) == IF a < b THEN a ELSE b

RECURSIVE SumSeq(_)
SumSeq(s) == IF s = <<>> THEN 0 ELSE s[1] + SumSeq(Tail(s))

----------------------------------------------------------------------------
(* Layers and the pretrained networks the instance may be built from *)

InputLayer(units) ==
    [type |-> "InputLayer", units |-> units, trainable |-> TRUE, w0 |-> <<>>]

Dense(units, kernel) ==
    [type |-> "Dense", units |-> units, trainable |-> TRUE, w0 |-> kernel]

(* BatchNormalization(center=True, gamma_initializer="ones") applied to a  *)
(* tensor of the given width: gamma has one entry per unit, all 1.         *)
BatchNormalization(width) ==
    [type |-> "BatchNormalization", units |-> width, trainable |-> TRUE,
     w0 |-> [j \in 1..width |-> 1]]

(* Kernel rows: an all-zero row, a row of alternating sign, a negative row *)
RowPattern(p, cols) ==
    [j \in 1..cols |-> CASE p = 0 -> 0
                         [] p = 1 -> IF j % 2 = 1 THEN 1 ELSE -1
                         [] OTHER -> -j]

Kernel(rows, cols, seed) ==
    [i \in 1..rows |-> RowPattern((seed + i) % 3, cols)]

Network(arch, seed) ==
    [k \in 1..Len(arch) |->
        IF k = 1 THEN InputLayer(arch[1])
        ELSE Dense(arch[k], Kernel(arch[k - 1], arch[k], seed + k))]

(* Every network of at least two layers and at most MaxUnits units *)
SmallArchitectures ==
    {arch \in UNION {[1..n -> 1..(MaxUnits - 1)] : n \in 2..MaxUnits} :
        SumSeq(arch) <= MaxUnits}

(* Input of width 4, a hidden layer of width 3, two classes *)
ToyArchitecture == <<4, 3, 2>>

(* One network whose class count lies outside the small-integer range *)
WideArchitecture == <<1, SmallIntMax + 1>>

Architectures == SmallArchitectures \cup {ToyArchitecture, WideArchitecture}

KernelSeeds == {0, 1}

Networks == {Network(arch, seed) : arch \in Architectures, seed \in KernelSeeds}

----------------------------------------------------------------------------
(* Python's `is` on two integers that come from two computations (a loop  *)
(* index, a len(), a stored attribute): equal integers are one object      *)
(* exactly when they lie in the small-integer range; different integers    *)
(* are never one object.                                                   *)
IsSameObject(a, b) ==
    /\ a = b
    /\ a \in SmallIntMin..SmallIntMax

----------------------------------------------------------------------------
(* insert_batchnorm_layer *)

RECURSIVE InsertLoop(_, _, _)
InsertLoop(layers, i, acc) ==
    \* i is the Python index of the layer the loop is at; acc the chain of
    \* layers applied so far (network_input ... last_output)
    IF i >= Len(layers) THEN acc
    ELSE LET layer == layers[i + 1]
             first == IF i = 0 THEN <<layer>> ELSE acc
             max_layer == Len(layers)
         IN  IF 0 < i /\ i < max_layer
             THEN InsertLoop(layers, i + 1,
                     first \o <<BatchNormalization(first[Len(first)].units), layer>>)
             ELSE InsertLoop(layers, i + 1, first)

InsertSkippingFinal(layers) ==
    LET n == Len(layers)
    IN  InsertLoop(SubSeq(layers, 1, n - 1), 0, <<>>) \o <<layers[n]>>

insert_batchnorm_layer(layers) == InsertLoop(layers, 0, <<>>)

----------------------------------------------------------------------------
(* ProcessedNetwork.__init__ *)

RECURSIVE InitLoop(_, _, _)
InitLoop(layers, i, self) ==
    IF i >= Len(layers) THEN self
    ELSE LET layer == layers[i + 1]
             s1 == [self EXCEPT !.architecture_data = Append(@, layer.units)]
             s2 == IF ~IsSameObject(i, 0)
                   THEN [s1 EXCEPT !.node_importance_value = Append(@, <<>>),
                                   !.edge_importance_value = Append(@, None)]
                   ELSE s1
             s3 == IF IsSameObject(i, Len(layers) - 1)
                   THEN [s2 EXCEPT !.num_classes = layer.units]
                   ELSE s2
         IN  InitLoop(layers, i + 1, s3)

InitSlotForEveryLayer(layers) ==
    LET self == InitLoop(layers, 0,
                   [num_classes |-> -1, architecture_data |-> <<>>,
                    node_importance_value |-> <<>>, edge_importance_value |-> <<>>,
                    edge_importance_set |-> FALSE])
    IN  [self EXCEPT !.node_importance_value = Append(@, <<>>),
                     !.edge_importance_value = Append(@, None)]

ProcessedNetworkInit(layers) ==
    InitLoop(layers, 0,
        [num_classes |-> -1, architecture_data |-> <<>>,
         node_importance_value |-> <<>>, edge_importance_value |-> <<>>,
         edge_importance_set |-> FALSE])

----------------------------------------------------------------------------
(* ProcessedNetwork.get_fine_tuned_model_data *)

(* Only the inserted normalization layers stay trainable *)
SetTrainable(layers) ==
    [i \in 1..Len(layers) |->
        [layers[i] EXCEPT !.trainable = (layers[i].type = "BatchNormalization")]]

(* compile + fit: training is the framework's; here it is a fixed function *)
(* of the network it starts from and of the class's training pair x.  It   *)
(* changes the weights of the trainable layers only; the validation pair   *)
(* takes no part in the weight updates.                                    *)
TrainedWeights(layer, i, x) ==
    IF layer.type = "BatchNormalization"
    THEN [j \in 1..Len(layer.w0) |-> layer.w0[j] * x * (1 + ((i + j) % 3))]
    ELSE [r \in 1..Len(layer.w0) |->
            [j \in 1..Len(layer.w0[r]) |-> layer.w0[r][j] + x]]

Fit(layers, train, test) ==
    [i \in 1..Len(layers) |->
        IF layers[i].trainable
        THEN [layers[i] EXCEPT !.w0 = TrainedWeights(layers[i], i, train)]
        ELSE layers[i]]

(* `stored` is the network at self.model_path, loaded anew by every call *)
get_fine_tuned_model_data(stored, train, test) ==
    Fit(SetTrainable(insert_batchnorm_layer(stored)), train, test)

----------------------------------------------------------------------------
(* ProcessedNetwork.extract_importance_from_model *)

RECURSIVE BatchNormPositions(_, _)
BatchNormPositions(layers, i) ==
    \* the positions (1-based) of the normalization layers, in layer order
    IF i > Len(layers) THEN <<>>
    ELSE (IF layers[i].type = "BatchNormalization" THEN <<i>> ELSE <<>>)
         \o BatchNormPositions(layers, i + 1)

(* The first loop: slot count (0-based) gets the scale vector of the        *)
(* normalization layer number count                                        *)
RECURSIVE AppendScales(_, _, _, _)
AppendScales(node, layers, bn, k) ==
    IF k > Len(bn) THEN SubSeq(node, k, Len(node))
    ELSE <<Append(node[k], layers[bn[k]].w0)>> \o AppendScales(node, layers, bn, k + 1)

ExtractNodeImportance(node, layers) ==
    AppendScales(node, layers, BatchNormPositions(layers, 1), 1)

ExtractEdgeUnguarded(edge, is_set, layers) ==
    LET bn == BatchNormPositions(layers, 1)
    IN  [k \in 1..Len(edge) |->
            IF k <= Len(bn) THEN layers[bn[k] + 1].w0 ELSE edge[k]]

ExtractEdgeImportance(edge, is_set, layers) ==
    IF ~is_set
    THEN LET bn == BatchNormPositions(layers, 1)
         IN  [k \in 1..Len(edge) |->
                IF k <= Len(bn) THEN layers[bn[k] + 1].w0 ELSE edge[k]]
    ELSE edge

(* self is the record of the instance's importance stores *)
extract_importance_from_model(self, layers) ==
    [self EXCEPT
        !.node_importance_value = ExtractNodeImportance(@, layers),
        !.edge_importance_value =
            ExtractEdgeImportance(@, self.edge_importance_set, layers),
        !.edge_importance_set = TRUE]

----------------------------------------------------------------------------
(* ProcessedNetwork.generate_importance_for_data *)

(* The check of the bundle lengths against num_classes (`is not`) *)
MismatchOnTrainOnly(train_len, test_len, classes) ==
    ~IsSameObject(train_len, classes) /\ ~IsNone(classes)

MismatchRaised(train_len, test_len, classes) ==
    \/ (~IsSameObject(train_len, classes) /\ ~IsNone(classes))
    \/ (~IsSameObject(test_len, classes) /\ ~IsNone(classes))

(* One iteration: fine-tune on the class's pair, then extract.  run is     *)
(* [self, fitted, pairs]: the instance's stores, the model the last round  *)
(* fitted, and per round <<train, test, 1>>: the pair it was given, and 1  *)
(* for a model fitted from the network at self.model_path.                 *)
RoundKeepingModel(run, stored, train, test) ==
    LET fitted == IF run.fitted = <<>>
                  THEN get_fine_tuned_model_data(stored, train, test)
                  ELSE Fit(run.fitted, train, test)
    IN  [self   |-> extract_importance_from_model(run.self, fitted),
         fitted |-> fitted,
         pairs  |-> Append(run.pairs, <<train, test, 1>>)]

Round(run, stored, train, test) ==
    LET fitted == get_fine_tuned_model_data(stored, train, test)
    IN  [self   |-> extract_importance_from_model(run.self, fitted),
         fitted |-> fitted,
         pairs  |-> Append(run.pairs, <<train, test, 1>>)]

(* The loop over zip(test_data, train_data), from pair c on *)
RECURSIVE ClassLoopFrom(_, _, _, _, _)
ClassLoopFrom(run, stored, train_data, test_data, c) ==
    IF c > Min2(Len(train_data), Len(test_data)) THEN run
    ELSE ClassLoopFrom(Round(run, stored, train_data[c], test_data[c]),
                       stored, train_data, test_data, c + 1)

ClassLoop(self, stored, train_data, test_data) ==
    ClassLoopFrom([self |-> self, fitted |-> <<>>, pairs |-> <<>>],
                  stored, train_data, test_data, 1)

(* np.stack(importance_values, axis=1) of vectors of equal length: entry   *)
(* [j][c] of the result is entry j of vector c                             *)
StackAxis0(importance_values) == importance_values

StackAxis1(importance_values) ==
    [j \in 1..Len(importance_values[1]) |->
        [c \in 1..Len(importance_values) |-> importance_values[c][j]]]

(* The whole method.  raised = "mismatch" is the exception of line 111.    *)
generate_importance_for_data(self, stored, train_data, test_data) ==
    IF MismatchRaised(Len(train_data), Len(test_data), self.num_classes)
    THEN [raised |-> "mismatch", self |-> self, fitted |-> <<>>, pairs |-> <<>>,
          result_node_importance |-> None, result_edge_importance |-> None]
    ELSE LET run == ClassLoop(self, stored, train_data, test_data)
         IN  IF \E k \in 1..Len(run.self.node_importance_value) :
                    run.self.node_importance_value[k] = <<>>
             THEN \* np.stack of an empty list raises ValueError
                  [raised |-> "stack", self |-> run.self, fitted |-> run.fitted,
                   pairs |-> run.pairs,
                   result_node_importance |-> None, result_edge_importance |-> None]
             ELSE
             [raised |-> "none", self |-> run.self, fitted |-> run.fitted,
              pairs |-> run.pairs,
              result_node_importance |->
                [k \in 1..Len(run.self.node_importance_value) |->
                    StackAxis1(run.self.node_importance_value[k])],
              result_edge_importance |->
                [k \in 1..Len(run.self.edge_importance_value) |->
                    run.self.edge_importance_value[k]]]

----------------------------------------------------------------------------
(* ProcessedNetwork.store_importance_data *)

(* numpy's array / scalar: a zero divisor gives nan or inf and a warning,  *)
(* it raises nothing                                                       *)
NumpyDivideRaises(divisor) == FALSE

NumpyDivide(a, b) == [num |-> a, den |-> b]

RECURSIVE Concat(_)
Concat(seqs) == IF seqs = <<>> THEN <<>> ELSE seqs[1] \o Concat(Tail(seqs))

(* The entries in the order the three nested loops visit them *)
Entries(data) == Concat(Concat(data))

AbsoluteLayers(data) ==
    [k \in 1..Len(data) |->
        [j \in 1..Len(data[k]) |->
            [c \in 1..Len(data[k][j]) |-> Abs(data[k][j][c])]]]

RECURSIVE MaxLoop(_, _)
MaxLoop(values, max_importance) ==
    IF values = <<>> THEN max_importance
    ELSE MaxLoop(Tail(values),
                 IF max_importance < values[1] THEN values[1] ELSE max_importance)

(* max_importance after the loops over np.absolute of every layer *)
MaxOfFirstLayer(node_importance_data) ==
    MaxLoop(Entries(<<AbsoluteLayers(node_importance_data)[1]>>), 0)

MaxImportance(node_importance_data) ==
    MaxLoop(Entries(AbsoluteLayers(node_importance_data)), 0)

NormalizedNodeImportanceData(node_importance_data) ==
    LET absolute == AbsoluteLayers(node_importance_data)
        max_importance == MaxImportance(node_importance_data)
    IN  [k \in 1..Len(absolute) |->
            [j \in 1..Len(absolute[k]) |->
                [c \in 1..Len(absolute[k][j]) |->
                    NumpyDivide(absolute[k][j][c], max_importance)]]]

EdgeSum(row) == SumSeq([j \in 1..Len(row) |-> Abs(row[j])])

NormalizedEdgeImportanceData(edge_importance_data) ==
    [k \in 1..Len(edge_importance_data) |->
        [i \in 1..Len(edge_importance_data[k]) |->
            LET row == edge_importance_data[k][i]
            IN  [j \in 1..Len(row) |-> NumpyDivide(Abs(row[j]), EdgeSum(row))]]]

(* Whether one of the divisions of the normalization raises *)
NormalizationRaises(node_importance_data, edge_importance_data) ==
    \/ NumpyDivideRaises(MaxImportance(node_importance_data))
    \/ \E k \in 1..Len(edge_importance_data) :
          \E i \in 1..Len(edge_importance_data[k]) :
             NumpyDivideRaises(EdgeSum(edge_importance_data[k][i]))

(* A list of matrices of numbers as the archive holds it *)
Numbers(data) ==
    [k \in 1..Len(data) |->
        [i \in 1..Len(data[k]) |->
            [j \in 1..Len(data[k][i]) |-> [num |-> data[k][i][j], den |-> 1]]]]

(* The pair np.savez writes: normalized_edge_importance_data is computed   *)
(* and never used, edge_importance_data is what is written                 *)
SavedImportance(node_importance_data, edge_importance_data, normalize) ==
    [written |-> TRUE,
     node |-> IF normalize THEN NormalizedNodeImportanceData(node_importance_data)
              ELSE Numbers(node_importance_data),
     edge |-> Numbers(edge_importance_data)]

----------------------------------------------------------------------------
(* The inputs *)

TrainVals == <<-1, 0, 2>>

(* A bundle of len class entries: the first is value number seed of       *)
(* TrainVals, each next one `step` values further, cyclically (step 0: all *)
(* entries alike)                                                          *)
Bundle(len, seed, step) ==
    [c \in 1..len |-> TrainVals[((seed + (c - 1) * step) % Len(TrainVals)) + 1]]

BundleSeeds == 0..(Len(TrainVals) - 1)

BundleSteps == {0, 1}

(* The lengths of the two bundles: both num_classes, or one of them off by *)
(* one                                                                     *)
BundleLengths ==
    {l \in {<<num_classes, num_classes>>,
            <<num_classes - 1, num_classes>>, <<num_classes + 1, num_classes>>,
            <<num_classes, num_classes - 1>>, <<num_classes, num_classes + 1>>} :
        l[1] >= 0 /\ l[2] >= 0}

Self ==
    [num_classes |-> num_classes, architecture_data |-> architecture_data,
     node_importance_value |-> node_importance_value,
     edge_importance_value |-> edge_importance_value,
     edge_importance_set |-> edge_importance_set]

NoArchive == [written |-> FALSE, node |-> None, edge |-> None]

----------------------------------------------------------------------------
(* The state machine *)

Init ==
    /\ model \in Networks
    /\ LET self == ProcessedNetworkInit(model)
       IN  /\ architecture_data = self.architecture_data
           /\ num_classes = self.num_classes
           /\ node_importance_value = self.node_importance_value
           /\ edge_importance_value = self.edge_importance_value
           /\ edge_importance_set = self.edge_importance_set
    /\ fine_tuned_model = <<>>
    /\ fine_tune_calls = 0
    /\ extract_calls = 0
    /\ column_data = <<>>
    /\ calls = 0
    /\ last = [op |-> "init", train_len |-> 0, test_len |-> 0, normalized |-> FALSE,
               raised |-> "none", rounds |-> 0,
               result_node_importance |-> None, result_edge_importance |-> None]
    /\ archive = NoArchive

(* The effect of a call of generate_importance_for_data on the instance *)
Generated(got, op, train_data, test_data, normalized, raised) ==
    /\ node_importance_value' = got.self.node_importance_value
    /\ edge_importance_value' = got.self.edge_importance_value
    /\ edge_importance_set' = got.self.edge_importance_set
    /\ fine_tuned_model' = IF got.pairs = <<>> THEN fine_tuned_model ELSE got.fitted
    /\ fine_tune_calls' = fine_tune_calls + Len(got.pairs)
    /\ extract_calls' = extract_calls + Len(got.pairs)
    /\ column_data' = column_data \o got.pairs
    /\ calls' = calls + 1
    /\ last' = [op |-> op, train_len |-> Len(train_data), test_len |-> Len(test_data),
                normalized |-> normalized, raised |-> raised, rounds |-> Len(got.pairs),
                result_node_importance |->
                    IF op = "generate" THEN got.result_node_importance ELSE None,
                result_edge_importance |->
                    IF op = "generate" THEN got.result_edge_importance ELSE None]
    /\ UNCHANGED <<model, architecture_data, num_classes>>

GenerateImportanceForData ==
    /\ calls < MaxCalls
    /\ \E lens \in BundleLengths, seed \in BundleSeeds, step \in BundleSteps :
            LET train_data == Bundle(lens[1], seed, step)
                test_data == Bundle(lens[2], seed, 0)
                got == generate_importance_for_data(Self, model, train_data, test_data)
            IN  /\ Generated(got, "generate", train_data, test_data, FALSE, got.raised)
                /\ UNCHANGED archive

StoreImportanceData ==
    /\ calls < MaxCalls
    /\ \E lens \in BundleLengths, seed \in BundleSeeds, step \in BundleSteps,
          normalize \in BOOLEAN :
            LET train_data == Bundle(lens[1], seed, step)
                test_data == Bundle(lens[2], seed, 0)
                got == generate_importance_for_data(Self, model, train_data, test_data)
                node_importance_data == got.result_node_importance
                edge_importance_data == got.result_edge_importance
                raised ==
                    IF got.raised # "none" THEN got.raised
                    ELSE IF normalize /\ NormalizationRaises(node_importance_data,
                                                             edge_importance_data)
                         THEN "arithmetic" ELSE "none"
            IN  /\ Generated(got, "store", train_data, test_data,
                             normalize /\ got.raised = "none", raised)
                /\ archive' = IF raised = "none"
                              THEN SavedImportance(node_importance_data,
                                                   edge_importance_data, normalize)
                              ELSE archive

(* A direct call of extract_importance_from_model with a fitted model of   *)
(* the instance's architecture, whatever weights it carries                *)
ExtractImportanceFromModel ==
    /\ calls < MaxCalls
    /\ \E seed \in KernelSeeds :
         LET x == TrainVals[(seed % Len(TrainVals)) + 1]
             fitted == get_fine_tuned_model_data(Network(architecture_data, seed), x, x)
             self == extract_importance_from_model(Self, fitted)
         IN  /\ node_importance_value' = self.node_importance_value
             /\ edge_importance_value' = self.edge_importance_value
             /\ edge_importance_set' = self.edge_importance_set
             /\ fine_tuned_model' = fitted
             /\ extract_calls' = extract_calls + 1
             /\ column_data' = Append(column_data, <<x, x, 0>>)
             /\ calls' = calls + 1
             /\ last' = [op |-> "extract", train_len |-> 0, test_len |-> 0,
                         normalized |-> FALSE, raised |-> "none", rounds |-> 0,
                         result_node_importance |-> None,
                         result_edge_importance |-> None]
             /\ UNCHANGED <<model, architecture_data, num_classes, fine_tune_calls,
                            archive>>

Next ==
    \/ GenerateImportanceForData
    \/ StoreImportanceData
    \/ ExtractImportanceFromModel

Spec == Init /\ [][Next]_vars

----------------------------------------------------------------------------
(* Properties *)

(* The last call was a generate_importance_for_data, directly or as the    *)
(* first statement of store_importance_data                                *)
PipelineCall == last.op \in {"generate", "store"}

Returned == last.op = "generate" /\ last.raised = "none"

Stored == last.op = "store" /\ last.raised = "none"

Slots == 1..Len(node_importance_value)

(* The absolute values of all node importance entries, and their maximum *)
AllEntries ==
    UNION {{node_importance_value[k][c][j] :
                j \in 1..Len(node_importance_value[k][c])} :
           k \in Slots, c \in 1..extract_calls}

AllAbsoluteEntries == {Abs(v) : v \in AllEntries}

GlobalMax == CHOOSE m \in AllAbsoluteEntries : \A v \in AllAbsoluteEntries : v <= m

ZeroRowCaptured ==
    \E k \in 1..Len(edge_importance_value) :
       \E i \in 1..Len(edge_importance_value[k]) :
          \A j \in 1..Len(edge_importance_value[k][i]) :
             edge_importance_value[k][i][j] = 0

(* C1: the two importance stores have one slot per layer but the first at  *)
(* all times, and so have the two lists generate_importance_for_data       *)
(* returns.                                                                *)
C1_StoreLengths ==
    /\ Len(node_importance_value) = Len(model) - 1
    /\ Len(edge_importance_value) = Len(model) - 1
    /\ Returned =>
         /\ Len(last.result_node_importance) = Len(model) - 1
         /\ Len(last.result_edge_importance) = Len(model) - 1

C1_Witness ==
    /\ Returned
    /\ calls = 2
    /\ extract_calls > num_classes
    /\ Len(model) = 3
    /\ Len(last.result_node_importance) = 2

(* C2: edge_importance_set is false exactly until the first extraction,    *)
(* never goes back to false, and once it is true no step changes           *)
(* edge_importance_value.                                                  *)
C2_EdgeCapturedOnce ==
    [][/\ edge_importance_set =>
            /\ edge_importance_set'
            /\ edge_importance_value' = edge_importance_value
       /\ extract_calls' > extract_calls => edge_importance_set'
       /\ (~edge_importance_set /\ edge_importance_set') =>
            (extract_calls = 0 /\ extract_calls' > 0)]_vars

(* a second extraction, given a model whose weights differ from the        *)
(* captured ones                                                           *)
C2_Witness ==
    /\ last.op = "extract"
    /\ extract_calls >= 2
    /\ edge_importance_set
    /\ fine_tuned_model[Len(fine_tuned_model)].w0
         # edge_importance_value[Len(edge_importance_value)]

(* C3 as claimed: whenever generate_importance_for_data returns, the       *)
(* matrix of hidden layer k (the layer at index k, of width                *)
(* architecture_data[k + 1]) has that many rows and num_classes columns.   *)
C3_ShapeAsClaimed ==
    Returned =>
        \A k \in Slots :
            /\ Len(last.result_node_importance[k]) = architecture_data[k + 1]
            /\ \A j \in 1..Len(last.result_node_importance[k]) :
                  Len(last.result_node_importance[k][j]) = num_classes

(* C3, amended: when generate_importance_for_data returns and no           *)
(* extraction ran on the instance before that call, the matrix in slot k   *)
(* has one row per unit of the layer that feeds normalization layer k (the *)
(* layer at index k - 1) and num_classes columns, and its column c is the  *)
(* scale vector that normalization layer learned for the c-th class        *)
(* processed.                                                              *)
C3_ShapeOnFirstCall ==
    (Returned /\ last.rounds = extract_calls) =>
        \A k \in Slots :
            LET matrix == last.result_node_importance[k]
            IN  /\ Len(matrix) = architecture_data[k]
                /\ \A j \in 1..Len(matrix) :
                      /\ Len(matrix[j]) = num_classes
                      /\ \A c \in 1..num_classes :
                            matrix[j][c] =
                              get_fine_tuned_model_data(model, column_data[c][1],
                                                        column_data[c][2])[2 * k].w0[j]

C3_Witness ==
    /\ Returned
    /\ last.rounds = extract_calls
    /\ architecture_data = ToyArchitecture
    /\ column_data[1] # column_data[2]
    /\ Len(last.result_node_importance[2]) = 3
    /\ last.result_node_importance[2][1][1] # last.result_node_importance[2][1][2]

(* C4: a call whose train or test bundle does not hold num_classes entries *)
(* raises the mismatch error, runs no fine-tune and no extraction, and     *)
(* leaves the importance stores and the flag as they were.                 *)
C4_MismatchAbortsFirst ==
    [][(/\ calls' = calls + 1
        /\ last'.op \in {"generate", "store"}
        /\ (last'.train_len # num_classes \/ last'.test_len # num_classes))
       => /\ last'.raised = "mismatch"
          /\ last'.rounds = 0
          /\ fine_tune_calls' = fine_tune_calls
          /\ extract_calls' = extract_calls
          /\ UNCHANGED <<node_importance_value, edge_importance_value,
                         edge_importance_set>>]_vars

C4_Witness ==
    /\ PipelineCall
    /\ last.raised = "mismatch"
    /\ last.train_len = num_classes
    /\ last.test_len = num_classes + 1
    /\ edge_importance_set
    /\ fine_tune_calls = num_classes

(* C5 as claimed: after store_importance_data with normalize = true, every *)
(* row of non-zero absolute sum of every persisted edge matrix is the      *)
(* captured row in absolute value divided by its absolute sum.             *)
C5_PersistedEdgeRowNormalized ==
    (Stored /\ last.normalized) =>
        \A k \in 1..Len(archive.edge) :
           \A i \in 1..Len(archive.edge[k]) :
              LET row == edge_importance_value[k][i]
              IN  EdgeSum(row) # 0 =>
                    \A j \in 1..Len(row) :
                       LET q == archive.edge[k][i][j]
                       IN  /\ q.den # 0
                           /\ q.num * EdgeSum(row) = Abs(row[j]) * q.den

(* C6: after store_importance_data with normalize = true and a non-zero    *)
(* global maximum M of the absolute node importance, every persisted node  *)
(* entry is the absolute value of the aggregated entry divided by M (the   *)
(* same M in every layer), lies in [0, 1], and is entry / M when no entry  *)
(* is negative.                                                            *)
C6_NodeNormalizedByGlobalMax ==
    (Stored /\ last.normalized /\ GlobalMax # 0) =>
        \A k \in Slots :
           /\ Len(archive.node[k]) = Len(node_importance_value[k][1])
           /\ \A j \in 1..Len(archive.node[k]) :
                 /\ Len(archive.node[k][j]) = extract_calls
                 /\ \A c \in 1..extract_calls :
                       LET q == archive.node[k][j][c]
                           v == node_importance_value[k][c][j]
                       IN  /\ q.den > 0
                           /\ q.num * GlobalMax = Abs(v) * q.den
                           /\ 0 <= q.num /\ q.num <= q.den
                           /\ (\A w \in AllEntries : w >= 0)
                                 => q.num * GlobalMax = v * q.den

(* two layers whose largest entries differ, and a negative entry *)
C6_Witness ==
    /\ Stored /\ last.normalized
    /\ Len(model) = 3
    /\ GlobalMax # 0
    /\ \E j \in 1..Len(archive.node[1]) : \E c \in 1..extract_calls :
          /\ node_importance_value[1][c][j] < 0
          /\ archive.node[1][j][c].num > 0
          /\ archive.node[1][j][c].num < archive.node[1][j][c].den

(* C7 as claimed: the mismatch error is raised exactly when num_classes is  *)
(* not the sentinel -1 and a bundle length differs from it; bundles of     *)
(* num_classes entries each never raise it and give num_classes rounds.    *)
C7_RaisesIffMismatch ==
    PipelineCall =>
        /\ last.raised = "mismatch" <=>
              /\ num_classes # -1
              /\ (last.train_len # num_classes \/ last.test_len # num_classes)
        /\ (last.train_len = num_classes /\ last.test_len = num_classes) =>
              (last.raised # "mismatch" /\ last.rounds = num_classes)

(* The normalization branch of the last store_importance_data divided by   *)
(* zero: no node importance entry is non-zero, or a captured edge row is   *)
(* all zero                                                                *)
DividedByZero ==
    /\ last.op = "store"
    /\ last.normalized
    /\ (GlobalMax = 0 \/ ZeroRowCaptured)

(* C8 as claimed: a division by zero during normalization makes            *)
(* store_importance_data fail with an arithmetic failure.                  *)
C8_DivisionByZeroAborts == DividedByZero => last.raised = "arithmetic"

(* A layer of the built network is the given original layer *)
IsOriginal(built, original) ==
    /\ built.type = original.type
    /\ built.units = original.units
    /\ built.w0 = original.w0

(* C9: the network insert_batchnorm_layer builds from n layers is layer 0, *)
(* then for i = 1..n-1 a new normalization layer of identity scale         *)
(* followed by layer i: n - 1 normalization layers, as many as store       *)
(* slots, none before layer 0 and one before the final layer; the model    *)
(* the pipeline fitted and extracted from last has that shape.             *)
C9_NormalizationBeforeEveryLaterLayer ==
    LET n == Len(model)
        built == insert_batchnorm_layer(model)
    IN  /\ Len(built) = 2 * n - 1
        /\ built[1] = model[1]
        /\ \A i \in 1..(n - 1) :
              /\ built[2 * i].type = "BatchNormalization"
              /\ built[2 * i].w0 = [j \in 1..model[i].units |-> 1]
              /\ built[2 * i + 1] = model[i + 1]
        /\ (PipelineCall /\ last.rounds > 0) =>
              /\ Len(fine_tuned_model) = 2 * n - 1
              /\ IsOriginal(fine_tuned_model[1], model[1])
              /\ \A i \in 1..(n - 1) :
                    /\ fine_tuned_model[2 * i].type = "BatchNormalization"
                    /\ IsOriginal(fine_tuned_model[2 * i + 1], model[i + 1])
              /\ Len(BatchNormPositions(fine_tuned_model, 1)) = n - 1
              /\ Len(BatchNormPositions(fine_tuned_model, 1))
                   = Len(node_importance_value)

C9_Witness ==
    /\ Returned
    /\ Len(model) = 3
    /\ Len(fine_tuned_model) = 5
    /\ fine_tuned_model[4].type = "BatchNormalization"
    /\ fine_tuned_model[5].type = "Dense"
    /\ fine_tuned_model[4].w0 # [j \in 1..model[2].units |-> 1]

====
